---- MODULE Spec2Model ----
(***************************************************************************)
(* Client-side lobby synchronisation of the Groupie frontend: the lobby    *)
(* page (fetchLobbyData, the poll loop, the view-state gate, the join gate *)
(* and the ready toggle), the persisted active-lobby pointer in            *)
(* localStorage, and the discount / price tier derivations.                *)
(*                                                                         *)
(* The backend is an external collaborator; it is modelled from its HTTP   *)
(* contract as one lobby whose state only the Server* actions change.      *)
(***************************************************************************)
EXTENDS Integers, Sequences, FiniteSets, Bags, TLC

(***************************************************************************)
(* Bounds of the model                                                     *)
(***************************************************************************)
MaxMembers == 4      \* the server accepts at most this many members
MaxInflight == 2     \* lobby fetches awaiting their response at one time
MaxCount == 10       \* member counts the tier derivations are applied to
MaxTimers == 4       \* interval timers one usePolling instance creates
MaxPollCalls == 3    \* invocations of the polling callback that are counted
MaxNow == 4000       \* the clock runs from 0 to this many milliseconds
ClockStep == 500     \* milliseconds the clock advances in one step
MaxCalls == 3        \* onExpired invocations and zero computations that are counted
NumCallbacks == 2    \* distinct callback closures a render can pass to usePolling
MaxNavInflight == 2  \* navbar validations awaiting their response at one time

(***************************************************************************)
(* JavaScript values                                                       *)
(***************************************************************************)
NULL == "<null>"                 \* null / undefined / an absent storage key

\* localStorage.setItem(key, value) stores String(value)
ToStorageString(v) == IF v = NULL THEN "null" ELSE v

\* String.prototype.toUpperCase on the route codes of the model
ToUpperCase(s) ==
    CASE s = "abc" -> "ABC"
      [] s = "xyz" -> "XYZ"
      [] OTHER -> s

\* String.prototype.trim on the names a user can type
Trim(s) ==
    CASE s = " " -> ""
      [] s = " Ola " -> "Ola"
      [] s = " A " -> "A"
      [] OTHER -> s

\* Math.min, Math.max
Min(a, b) == IF a < b THEN a ELSE b
Max(a, b) == IF a > b THEN a ELSE b

(***************************************************************************)
(* Constants of the lobby page                                             *)
(***************************************************************************)
DISCOUNT_TIERS ==
    << [size |-> 2, discount |-> 0,  label |-> "Standard"],
       [size |-> 4, discount |-> 20, label |-> "20% rabatt"],
       [size |-> 6, discount |-> 30, label |-> "30% rabatt"],
       [size |-> 8, discount |-> 40, label |-> "Beste pris!"] >>

POLL_INTERVAL_MS == 3000
NoTimer == 0                             \* no interval id (an effect without cleanup)
NullDelay == -1                          \* the delay argument null (polling paused)

MSG_NOT_FOUND == "Lobbyen ble ikke funnet."
MSG_NO_SERVER == "Kunne ikke koble til serveren."

ParamsCode == "abc"                      \* the [code] segment of the route
lobbyCode == ToUpperCase(ParamsCode)
OtherCode == "XYZ"                       \* a lobby opened from another page

Names == {"Ola", "Kari", "Per", "Liv"}
Guests == << "Per", "Liv" >>             \* other clients, in the order they join

(***************************************************************************)
(* State                                                                   *)
(***************************************************************************)
VARIABLES
    server,             \* the backend's lobby ABC (external collaborator)
    localStorage,       \* groupie_user, groupie_active_lobby, groupie_active_business_id
    user,               \* AuthContext: the in-memory identity's name, or NULL
    lobby,              \* LobbyPage: useState<LobbyData | null>
    isLoading,          \* LobbyPage: useState(true)
    error,              \* LobbyPage: useState<string | null>
    hasJoined,          \* LobbyPage: useState(false)
    prevMemberCountRef, \* LobbyPage: useRef<number>(0)
    prevStatusRef,      \* LobbyPage: useRef<string>('')
    mounted,            \* the mount effect of LobbyPage has run
    inflight,           \* bag of the responses of GET /lobbies/ABC not yet delivered
    toasts,             \* the toasts the latest handler run showed, in order
    isJoining,          \* JoinGate: useState(false)
    joinReq,            \* the name of the pending POST .../join, or NULL
    joinIsLoggedIn,     \* handleJoin's isLoggedIn prop while its request is pending
    gateError,          \* JoinGate: useState<string | null>(null)
    isToggling,         \* MemberList: useState(false)
    readyReq,           \* a POST .../ready awaits its response
    tierView,           \* the tier values last derived for a member count
    route,              \* the page the router shows: lobby, landing, login, start, business
    loginError,         \* LoginPage: useState<string | null>(null)
    navActiveLobbyCode, \* Navbar: useState<string | null>(null)
    navIsValidLobby,    \* Navbar: useState(false)
    startActiveLobbyCode, \* StartGroupPage: useState<string | null>(null)
    bizActiveLobbyCode, \* BusinessDetailPage: useState<string | null>(null)
    bizActiveLobbyBusinessId, \* BusinessDetailPage: useState<string | null>(null)
    navInflight,        \* Navbar: validations awaiting their response
    navLastResult,      \* per code, the outcome of the latest validation that returned
    orphaned,           \* lobby fetches in flight whose page has been unmounted
    orphanPrevCount,    \* prevMemberCountRef of the unmounted page
    orphanPrevStatus,   \* prevStatusRef of the unmounted page
    isCreating,         \* BusinessDetailPage: useState(false)
    isLeaderOfEmptyLobby, \* BusinessDetailPage: useState(false)
    createReq,          \* the request createNewGroup / attachBusinessToLobby awaits
    hookMounted,        \* usePolling: the component using the hook is mounted
    hookDelay,          \* usePolling: the delay argument of the latest render
    callback,           \* usePolling: the callback argument of the latest render
    savedCallback,      \* usePolling: savedCallback.current
    cleanupId,          \* usePolling: the id the interval effect's cleanup will clear
    liveTimers,         \* the interval timers that are set and not cleared
    nextTimerId,        \* the id the next setInterval call returns
    clearCount,         \* how often clearInterval was called with each id
    pollCalls,          \* invocations of the callback by a timer tick
    lastCalled,         \* the callback the latest tick invoked
    cdMounted,          \* CountdownTimer is mounted
    expiresAt,          \* CountdownTimer: the expiresAt prop, as epoch milliseconds
    now,                \* Date.now()
    mountedAt,          \* the clock when CountdownTimer was mounted
    timeRemaining,      \* CountdownTimer: useState<number>(0)
    isExpired,          \* CountdownTimer: useState(false)
    effectIsExpired,    \* the isExpired the current effect closure captured
    cdInterval,         \* the interval of the current effect is set
    onExpiredCalls,     \* invocations of onExpired in this mount
    zeroComputations    \* computations in this mount whose remaining was 0

pageVars == << lobby, isLoading, error, hasJoined, prevMemberCountRef, prevStatusRef, mounted >>
gateVars == << isJoining, joinReq, joinIsLoggedIn, gateError, isToggling, readyReq >>
asyncVars == << navInflight, navLastResult, orphaned, orphanPrevCount, orphanPrevStatus,
               createReq >>
bizFlags == << isCreating, isLeaderOfEmptyLobby >>
sessionVars == << route, loginError, navActiveLobbyCode, navIsValidLobby,
                 startActiveLobbyCode, bizActiveLobbyCode, bizActiveLobbyBusinessId,
                 bizFlags, asyncVars >>
pollVars == << hookMounted, hookDelay, callback, savedCallback, cleanupId, liveTimers,
              nextTimerId, clearCount, pollCalls, lastCalled >>
cdVars == << cdMounted, expiresAt, now, mountedAt, timeRemaining, isExpired,
            effectIsExpired, cdInterval, onExpiredCalls, zeroComputations >>
widgetVars == << pollVars, cdVars >>
auxVars == << sessionVars, widgetVars >>
vars == << server, localStorage, user, pageVars, inflight, toasts, gateVars, tierView,
          auxVars >>

(***************************************************************************)
(* Data                                                                    *)
(***************************************************************************)
\* LobbyData as the page keeps it; ver is the server's logical time at which
\* the snapshot was taken (it is not a field the client reads).
\* No request of the business page awaits its response.
NoRequest == [kind |-> "none", replaced |-> FALSE, before |-> << NULL, NULL >>]

NoLobby ==
    [present |-> FALSE, lobby_code |-> NULL, business_id |-> NULL, status |-> "",
     member_count |-> 0, members |-> << >>, ver |-> 0]

Snapshot(srv) ==
    [present |-> TRUE, lobby_code |-> srv.lobby_code, business_id |-> srv.business_id,
     status |-> srv.status, member_count |-> Len(srv.members), members |-> srv.members,
     ver |-> srv.ver]

Range(q) == { q[i] : i \in 1..Len(q) }

(***************************************************************************)
(* The catalog (data/businesses)                                           *)
(***************************************************************************)
NoTier == [size |-> 0, discount |-> 0, label |-> NULL]
NoPriceTier == [size |-> 0, pricePerPerson |-> 0, discountLabel |-> NULL]
NoBusiness == [id |-> NULL, name |-> NULL, pricingTiers |-> << >>]

MOCK_BUSINESSES ==
    << [id |-> "1", name |-> "Strike Zone Bowling", pricingTiers |->
          << [size |-> 2, pricePerPerson |-> 250, discountLabel |-> "Standard"],
             [size |-> 4, pricePerPerson |-> 200, discountLabel |-> "20% rabatt"],
             [size |-> 6, pricePerPerson |-> 175, discountLabel |-> "30% rabatt"],
             [size |-> 8, pricePerPerson |-> 150, discountLabel |-> "Beste pris!"] >>],
       [id |-> "2", name |-> "Luigi's Wood Fired Pizza", pricingTiers |->
          << [size |-> 2, pricePerPerson |-> 350, discountLabel |-> "Standard"],
             [size |-> 4, pricePerPerson |-> 325, discountLabel |-> "Gratis drikke"],
             [size |-> 6, pricePerPerson |-> 300, discountLabel |-> "Gratis forrett"],
             [size |-> 10, pricePerPerson |-> 275, discountLabel |-> "VIP-pakke!"] >>],
       [id |-> "3", name |-> "Velocity Go-Karting", pricingTiers |->
          << [size |-> 2, pricePerPerson |-> 500, discountLabel |-> "Standard"],
             [size |-> 4, pricePerPerson |-> 450, discountLabel |-> "50 kr rabatt"],
             [size |-> 8, pricePerPerson |-> 400, discountLabel |-> "100 kr rabatt"],
             [size |-> 12, pricePerPerson |-> 350, discountLabel |-> "Beste pris!"] >>],
       [id |-> "4", name |-> "The Escape Room Complex", pricingTiers |->
          << [size |-> 2, pricePerPerson |-> 400, discountLabel |-> "Standard"],
             [size |-> 3, pricePerPerson |-> 350, discountLabel |-> "12% rabatt"],
             [size |-> 5, pricePerPerson |-> 320, discountLabel |-> "20% rabatt"],
             [size |-> 6, pricePerPerson |-> 300, discountLabel |-> "Fullt rom-rabatt!"] >>] >>

\* MOCK_BUSINESSES.find((business) => business.id === id)
getBusinessById(id) ==
    LET Test(b) == b.id = id
        hit == SelectSeq(MOCK_BUSINESSES, Test)
    IN  IF hit = << >> THEN NoBusiness ELSE hit[1]

CatalogIds == { MOCK_BUSINESSES[i].id : i \in 1..Len(MOCK_BUSINESSES) }

(***************************************************************************)
(* Discount tier derivations of the lobby page                             *)
(***************************************************************************)
\* A filter that drops the tier whose size equals the count.
MutLastQualifyingTier(count) ==
    LET Test(t) == count > t.size
        q == SelectSeq(DISCOUNT_TIERS, Test)
    IN  IF q = << >> THEN NoTier ELSE q[Len(q)]

\* DISCOUNT_TIERS.filter(t => count >= t.size).pop()
LastQualifyingTier(count) ==
    LET Test(t) == count >= t.size
        q == SelectSeq(DISCOUNT_TIERS, Test)
    IN  IF q = << >> THEN NoTier ELSE q[Len(q)]

\* ... .pop() || DISCOUNT_TIERS[0]
CurrentTier(count) ==
    IF LastQualifyingTier(count) = NoTier THEN DISCOUNT_TIERS[1]
    ELSE LastQualifyingTier(count)

\* DISCOUNT_TIERS.find(t => t.size > count)
NextTier(count) ==
    LET Test(t) == t.size > count
        q == SelectSeq(DISCOUNT_TIERS, Test)
    IN  IF q = << >> THEN NoTier ELSE q[1]

\* business.pricingTiers?.find(t => t.size <= count) || baseTier
CurrentPriceTier(business, count) ==
    LET Test(t) == t.size <= count
        q == SelectSeq(business.pricingTiers, Test)
        baseTier == IF business.pricingTiers = << >> THEN NoPriceTier
                    ELSE business.pricingTiers[1]
    IN  IF q = << >> THEN baseTier ELSE q[1]

\* Math.round(basePrice * (1 - discount / 100)) with basePrice = 250
BASE_PRICE == 250
CurrentPrice(tier) == (2 * BASE_PRICE * (100 - tier.discount) + 100) \div 200

\* The tier values one view of the page derives from a member count.
NoTierView ==
    [view |-> "none", count |-> 0, business_id |-> NULL,
     currentTier |-> NoTier, nextTier |-> NoTier, priceTier |-> NoPriceTier,
     price |-> 0, progress |-> [num |-> 0, den |-> 1], hintShown |-> FALSE,
     membersNeeded |-> 0, badgeShown |-> FALSE]

\* The width of a progress indicator in percent, as the exact fraction num / den.
\* ProgressBar: Math.min((currentCount / maxSize) * 100, 100)
ProgressBarPercent(count) ==
    LET maxSize == DISCOUNT_TIERS[Len(DISCOUNT_TIERS)].size
    IN  [num |-> Min(count * 100, 100 * maxSize), den |-> maxSize]

\* DiscountProgressBar (LobbyView): (currentCount / maxCapacity) * 100
DiscountProgressPercent(count, maxCapacity) ==
    [num |-> count * 100, den |-> maxCapacity]

\* The next tier handed to ShareButton:
\* DISCOUNT_TIERS.find(t => t.size > count) || DISCOUNT_TIERS[DISCOUNT_TIERS.length - 1]
ShareNextTier(count) ==
    IF NextTier(count) = NoTier THEN DISCOUNT_TIERS[Len(DISCOUNT_TIERS)] ELSE NextTier(count)

\* The difference without the clamp at zero.
MutMembersNeeded(nextTierSize, currentMembers) == nextTierSize - currentMembers

\* ShareButton: Math.max(0, nextTierSize - currentMembers)
MembersNeeded(nextTierSize, currentMembers) == Max(0, nextTierSize - currentMembers)

(***************************************************************************)
(* fetchLobbyData: what a successful response does                         *)
(***************************************************************************)
Toast(kind, name, discount) == [kind |-> kind, name |-> name, discount |-> discount]

\* data.members[data.members.length - 1]?.user_name
NewestMember(data) ==
    IF data.members = << >> THEN NULL ELSE data.members[Len(data.members)]

\* The toast without the guard on a nonzero previous count.
MutMemberJoinedToasts(prevCount, data) ==
    IF data.member_count > prevCount
    THEN << Toast("joined", NewestMember(data),
                  LastQualifyingTier(data.member_count).discount) >>
    ELSE << >>

\* The "member joined" toast of lines 551-560.
MemberJoinedToasts(prevCount, data) ==
    IF prevCount > 0 /\ data.member_count > prevCount
    THEN << Toast("joined", NewestMember(data),
                  LastQualifyingTier(data.member_count).discount) >>
    ELSE << >>

\* A level-triggered toast: shown whenever the snapshot is LOCKED.
MutLockedToasts(prevStatus, data) ==
    IF data.status = "LOCKED" THEN << Toast("locked", NULL, 0) >> ELSE << >>

\* The "group locked" toast of lines 562-564.
LockedToasts(prevStatus, data) ==
    IF prevStatus = "OPEN" /\ data.status = "LOCKED"
    THEN << Toast("locked", NULL, 0) >>
    ELSE << >>

ClearPointer(ls) ==
    [ls EXCEPT !.groupie_active_lobby = NULL, !.groupie_active_business_id = NULL]

\* Lines 569-579: the write-through to the active-lobby pointer.
PointerAfterFetch(ls, data) ==
    LET saved == IF data.status = "OPEN"
                 THEN [ls EXCEPT !.groupie_active_lobby = ToStorageString(data.lobby_code),
                                 !.groupie_active_business_id =
                                     ToStorageString(data.business_id)]
                 ELSE ls
    IN  IF data.status \in {"EXPIRED", "CONFIRMED"} THEN ClearPointer(saved) ELSE saved

(***************************************************************************)
(* The view-state gate: the early returns of LobbyPage's render            *)
(***************************************************************************)
isUserInLobby(u, l) == u # NULL /\ u \in Range(l.members)

\* The gate with the confirmed branch tested before the join gate.
MutSelectScreen(loading, err, l, u, joined) ==
    IF loading THEN "loading"
    ELSE IF err # NULL \/ ~l.present THEN "error"
    ELSE IF l.status = "CONFIRMED" THEN "confirmed"
    ELSE IF ~isUserInLobby(u, l) /\ ~joined THEN "join"
    ELSE "normal"

SelectScreen(loading, err, l, u, joined) ==
    IF loading THEN "loading"
    ELSE IF err # NULL \/ ~l.present THEN "error"
    ELSE IF ~isUserInLobby(u, l) /\ ~joined THEN "join"
    ELSE IF l.status = "CONFIRMED" THEN "confirmed"
    ELSE "normal"

\* What the selected screen shows of the page state.
ScreenContent(kind, err, l) ==
    CASE kind = "loading" ->
            [kind |-> kind, heading |-> "Henter lobby...", code |-> NULL, members |-> << >>]
      [] kind = "error" ->
            [kind |-> kind, heading |-> "Gruppen finnes ikke", code |-> NULL, members |-> << >>]
      [] kind = "join" ->
            [kind |-> kind, heading |-> "Bli med i gruppen!", code |-> lobbyCode,
             members |-> << >>]
      [] kind = "confirmed" ->
            [kind |-> kind, heading |-> "ConfirmedTicket", code |-> l.lobby_code,
             members |-> << >>]
      [] OTHER ->
            [kind |-> kind, heading |-> l.status, code |-> l.lobby_code,
             members |-> l.members]

ScreenKind == SelectScreen(isLoading, error, lobby, user, hasJoined)
Screen == ScreenContent(ScreenKind, error, lobby)

\* An error branch that clears the pointer whatever code it references.
MutRenderStorage(ls, kind) ==
    IF kind = "error" THEN ClearPointer(ls) ELSE ls

\* Lines 611-620: the error branch of the render clears a pointer to this lobby.
RenderStorage(ls, kind) ==
    IF kind = "error" /\ ls.groupie_active_lobby = lobbyCode THEN ClearPointer(ls) ELSE ls

\* A render after a state change: the error branch's storage write, and the
\* local state of JoinGate and MemberList, which is discarded when the screen
\* that holds them is not rendered.
Rerender(ls, joining, gErr, toggling) ==
    LET kind == SelectScreen(isLoading', error', lobby', user', hasJoined')
    IN  /\ localStorage' = RenderStorage(ls, kind)
        /\ isJoining' = (kind = "join" /\ joining)
        /\ gateError' = IF kind = "join" THEN gErr ELSE NULL
        /\ isToggling' = (kind = "normal" /\ toggling)

(***************************************************************************)
(* The backend, from its HTTP contract                                     *)
(***************************************************************************)
Response(kind, data) == [kind |-> kind, data |-> data]

\* GET /lobbies/{code}: 200 with the snapshot, 404, another error status, or
\* no answer at all (the fetch rejects).
FetchOutcomes(srv) ==
    { IF srv.exists THEN Response("ok", Snapshot(srv)) ELSE Response("notfound", NoLobby),
      Response("status500", NoLobby),
      Response("neterr", NoLobby) }

ServerBump(srv) == [srv EXCEPT !.ver = @ + 1]

\* Another client joins through POST /lobbies/{code}/join.
ServerJoin(n) ==
    /\ server.exists /\ server.status = "OPEN"
    /\ n \notin Range(server.members)
    /\ n = "Ola" \/ \E k \in 1..Len(Guests) :
                        /\ n = Guests[k]
                        /\ \A j \in 1..(k - 1) : Guests[j] \in Range(server.members)
    /\ Len(server.members) < MaxMembers
    /\ server' = ServerBump([server EXCEPT !.members = Append(@, n)])
    /\ UNCHANGED << localStorage, user, pageVars, inflight, toasts, gateVars, tierView >>
    /\ UNCHANGED auxVars

\* Every member is ready: the lobby locks.
ServerLock ==
    /\ server.exists /\ server.status = "OPEN"
    /\ server' = ServerBump([server EXCEPT !.status = "LOCKED"])
    /\ UNCHANGED << localStorage, user, pageVars, inflight, toasts, gateVars, tierView >>
    /\ UNCHANGED auxVars

ServerConfirm ==
    /\ server.exists /\ server.status = "LOCKED"
    /\ server' = ServerBump([server EXCEPT !.status = "CONFIRMED"])
    /\ UNCHANGED << localStorage, user, pageVars, inflight, toasts, gateVars, tierView >>
    /\ UNCHANGED auxVars

ServerExpire ==
    /\ server.exists /\ server.status = "OPEN"
    /\ server' = ServerBump([server EXCEPT !.status = "EXPIRED"])
    /\ UNCHANGED << localStorage, user, pageVars, inflight, toasts, gateVars, tierView >>
    /\ UNCHANGED auxVars

\* The lobby is purged: GET answers 404 from now on.
ServerPurge ==
    /\ server.exists
    /\ server' = ServerBump([server EXCEPT !.exists = FALSE])
    /\ UNCHANGED << localStorage, user, pageVars, inflight, toasts, gateVars, tierView >>
    /\ UNCHANGED auxVars

(***************************************************************************)
(* LobbyPage: fetchLobbyData                                               *)
(***************************************************************************)
\* useEffect(() => { fetchLobbyData(); }, [fetchLobbyData])
MountEffect ==
    /\ ~mounted
    /\ mounted' = TRUE
    /\ \E r \in FetchOutcomes(server) : inflight' = inflight (+) SetToBag({r})
    /\ toasts' = << >>
    /\ UNCHANGED << server, localStorage, user, lobby, isLoading, error, hasJoined,
                    prevMemberCountRef, prevStatusRef, gateVars, tierView >>
    /\ UNCHANGED auxVars

\* A poll tick whose fetch shows the loading state again.
MutPollTick ==
    /\ mounted /\ ~isLoading
    /\ BagCardinality(inflight) < MaxInflight
    /\ \E r \in FetchOutcomes(server) : inflight' = inflight (+) SetToBag({r})
    /\ toasts' = << >>
    /\ isLoading' = TRUE
    /\ UNCHANGED << server, localStorage, user, lobby, error, hasJoined,
                    prevMemberCountRef, prevStatusRef, mounted, gateVars, tierView >>
    /\ UNCHANGED auxVars

\* usePolling(() => { fetchLobbyData(); }, isLoading ? null : POLL_INTERVAL_MS)
PollTick ==
    /\ mounted /\ ~isLoading
    /\ BagCardinality(inflight) < MaxInflight
    /\ \E r \in FetchOutcomes(server) : inflight' = inflight (+) SetToBag({r})
    /\ toasts' = << >>
    /\ UNCHANGED << server, localStorage, user, pageVars, gateVars, tierView >>
    /\ UNCHANGED auxVars

\* A successful response that leaves the error state as it is.
MutFetchOk(data) ==
    /\ toasts' = MemberJoinedToasts(prevMemberCountRef, data)
                     \o LockedToasts(prevStatusRef, data)
    /\ prevMemberCountRef' = data.member_count
    /\ prevStatusRef' = data.status
    /\ lobby' = data
    /\ error' = error
    /\ isLoading' = FALSE
    /\ UNCHANGED << hasJoined, user >>
    /\ Rerender(PointerAfterFetch(localStorage, data), isJoining, gateError, isToggling)

\* The response is ok: lines 549-582.
FetchOk(data) ==
    /\ toasts' = MemberJoinedToasts(prevMemberCountRef, data)
                     \o LockedToasts(prevStatusRef, data)
    /\ prevMemberCountRef' = data.member_count
    /\ prevStatusRef' = data.status
    /\ lobby' = data
    /\ error' = NULL
    /\ isLoading' = FALSE
    /\ UNCHANGED << hasJoined, user >>
    /\ Rerender(PointerAfterFetch(localStorage, data), isJoining, gateError, isToggling)

\* A failed fetch that forgets the previous snapshot.
MutFetchFailed(message) ==
    /\ error' = message
    /\ isLoading' = FALSE
    /\ toasts' = << >>
    /\ prevMemberCountRef' = 0
    /\ prevStatusRef' = ""
    /\ UNCHANGED << lobby, hasJoined, user >>
    /\ Rerender(localStorage, isJoining, gateError, isToggling)

\* The response is a 404 (lines 541-546), or the fetch threw (lines 583-585).
FetchFailed(message) ==
    /\ error' = message
    /\ isLoading' = FALSE
    /\ toasts' = << >>
    /\ UNCHANGED << lobby, hasJoined, user, prevMemberCountRef, prevStatusRef >>
    /\ Rerender(localStorage, isJoining, gateError, isToggling)

\* fetchLobbyData resumes after `await fetch(...)` with one of the pending responses.
Deliver(r) ==
    /\ BagIn(r, inflight)
    /\ inflight' = inflight (-) SetToBag({r})
    /\ CASE r.kind = "ok" -> FetchOk(r.data)
         [] r.kind = "notfound" -> FetchFailed(MSG_NOT_FOUND)
         [] OTHER -> FetchFailed(MSG_NO_SERVER)
    /\ UNCHANGED << server, mounted, joinReq, joinIsLoggedIn, readyReq, tierView >>
    /\ UNCHANGED auxVars

DeliverAny == \E r \in BagToSet(inflight) : Deliver(r)

(***************************************************************************)
(* AuthContext                                                             *)
(***************************************************************************)
\* login(name): the identity's name is name.trim(); it is persisted at once.
LoginName(name) == Trim(name)

(***************************************************************************)
(* JoinGate                                                                *)
(***************************************************************************)
DisplayInputs == {" ", " Ola "}

\* handleJoin up to its `await fetch(.../join)`.
JoinStart(d) ==
    /\ ScreenKind = "join" /\ ~isJoining /\ joinReq = NULL
    /\ IF Trim(d) = ""
       THEN /\ gateError' = "Vennligst skriv inn et navn"
            /\ UNCHANGED << localStorage, user, isJoining, joinReq, joinIsLoggedIn,
                            isToggling >>
            /\ UNCHANGED << lobby, isLoading, error, hasJoined >>
       ELSE /\ joinReq' = Trim(d)
            /\ joinIsLoggedIn' = (user # NULL)
            /\ user' = IF user = NULL THEN LoginName(Trim(d)) ELSE user
            /\ UNCHANGED << lobby, isLoading, error, hasJoined >>
            /\ Rerender(IF user = NULL
                        THEN [localStorage EXCEPT !.groupie_user = LoginName(Trim(d))]
                        ELSE localStorage,
                        TRUE, NULL, isToggling)
    /\ toasts' = << >>
    /\ UNCHANGED << server, prevMemberCountRef, prevStatusRef, mounted, inflight,
                    readyReq, tierView >>
    /\ UNCHANGED auxVars

\* The server accepts a join into an open lobby under a name not yet in it.
JoinAccepted(srv, n) ==
    /\ srv.exists /\ srv.status = "OPEN"
    /\ n \notin Range(srv.members)
    /\ Len(srv.members) < MaxMembers

\* handleJoin after the await: response.ok, then onJoinSuccess (lines 682-686).
JoinSucceeds ==
    /\ joinReq # NULL
    /\ JoinAccepted(server, joinReq)
    /\ BagCardinality(inflight) < MaxInflight
    /\ server' = ServerBump([server EXCEPT !.members = Append(@, joinReq)])
    /\ toasts' = << Toast("welcome", NULL, 0) >>
    /\ hasJoined' = TRUE
    /\ \E r \in FetchOutcomes(server') : inflight' = inflight (+) SetToBag({r})
    /\ joinReq' = NULL
    /\ joinIsLoggedIn' = FALSE
    /\ UNCHANGED << user, lobby, isLoading, error >>
    /\ Rerender(localStorage, FALSE, gateError, isToggling)
    /\ UNCHANGED << prevMemberCountRef, prevStatusRef, mounted, readyReq, tierView >>
    /\ UNCHANGED auxVars

\* handleJoin after the await: the server rejects the join, or the request fails.
JoinFails ==
    /\ joinReq # NULL
    /\ joinReq' = NULL
    /\ joinIsLoggedIn' = FALSE
    /\ toasts' = << Toast("joinFailed", NULL, 0) >>
    /\ UNCHANGED << user, lobby, isLoading, error, hasJoined >>
    /\ Rerender(localStorage, FALSE, "Kunne ikke bli med i gruppen", isToggling)
    /\ UNCHANGED << server, prevMemberCountRef, prevStatusRef, mounted, inflight,
                    readyReq, tierView >>
    /\ UNCHANGED auxVars

(***************************************************************************)
(* MemberList: the ready toggle                                            *)
(***************************************************************************)
\* handleReadyToggle up to its `await fetch(.../ready)`.
ReadyStart ==
    /\ ScreenKind = "normal" /\ isUserInLobby(user, lobby)
    /\ ~isToggling /\ lobby.status = "OPEN"
    /\ ~readyReq
    /\ isToggling' = TRUE
    /\ readyReq' = TRUE
    /\ toasts' = << >>
    /\ UNCHANGED << server, localStorage, user, pageVars, inflight,
                    isJoining, joinReq, joinIsLoggedIn, gateError, tierView >>
    /\ UNCHANGED auxVars

\* response.ok: a toast, then onReadyToggle = fetchLobbyData.  The server locks
\* the lobby when this was the last member to become ready.
ReadySucceeds(allReady) ==
    /\ readyReq
    /\ server.exists /\ server.status = "OPEN"
    /\ BagCardinality(inflight) < MaxInflight
    /\ server' = IF allReady THEN ServerBump([server EXCEPT !.status = "LOCKED"])
                 ELSE server
    /\ toasts' = << Toast(IF allReady THEN "allReady" ELSE "ready", NULL, 0) >>
    /\ \E r \in FetchOutcomes(server') : inflight' = inflight (+) SetToBag({r})
    /\ readyReq' = FALSE
    /\ isToggling' = FALSE
    /\ UNCHANGED << localStorage, user, pageVars, isJoining, joinReq, joinIsLoggedIn,
                    gateError, tierView >>
    /\ UNCHANGED auxVars

\* A failure path without the finally block.
MutReadyFails(thrown) ==
    /\ readyReq
    /\ toasts' = IF thrown THEN << Toast("readyFailed", NULL, 0) >> ELSE << >>
    /\ readyReq' = FALSE
    /\ isToggling' = isToggling
    /\ UNCHANGED << server, localStorage, user, pageVars, inflight,
                    isJoining, joinReq, joinIsLoggedIn, gateError, tierView >>
    /\ UNCHANGED auxVars

\* The server answers with an error status (no toast), or the request fails.
ReadyFails(thrown) ==
    /\ readyReq
    /\ toasts' = IF thrown THEN << Toast("readyFailed", NULL, 0) >> ELSE << >>
    /\ readyReq' = FALSE
    /\ isToggling' = FALSE
    /\ UNCHANGED << server, localStorage, user, pageVars, inflight,
                    isJoining, joinReq, joinIsLoggedIn, gateError, tierView >>
    /\ UNCHANGED auxVars

(***************************************************************************)
(* The lobby page as a state machine                                       *)
(***************************************************************************)
\* The lobby page is the page shown; the other pages are not mounted.
AuxInit ==
    /\ route = "lobby"
    /\ loginError = NULL
    /\ navActiveLobbyCode = NULL
    /\ navIsValidLobby = FALSE
    /\ startActiveLobbyCode = NULL
    /\ bizActiveLobbyCode = NULL
    /\ bizActiveLobbyBusinessId = NULL
    /\ navInflight = {}
    /\ navLastResult = [c \in {lobbyCode, OtherCode} |-> "none"]
    /\ orphaned = EmptyBag
    /\ orphanPrevCount = 0
    /\ orphanPrevStatus = ""
    /\ isCreating = FALSE
    /\ isLeaderOfEmptyLobby = FALSE
    /\ createReq = NoRequest
    /\ hookMounted = FALSE
    /\ hookDelay = NullDelay
    /\ callback = 0
    /\ savedCallback = 0
    /\ cleanupId = NoTimer
    /\ liveTimers = {}
    /\ nextTimerId = 1
    /\ clearCount = [id \in 1..MaxTimers |-> 0]
    /\ pollCalls = 0
    /\ lastCalled = 0
    /\ cdMounted = FALSE
    /\ expiresAt = 0
    /\ now = 0
    /\ mountedAt = 0
    /\ timeRemaining = 0
    /\ isExpired = FALSE
    /\ effectIsExpired = FALSE
    /\ cdInterval = FALSE
    /\ onExpiredCalls = 0
    /\ zeroComputations = 0

InitStorage ==
    { [groupie_user |-> u, groupie_active_lobby |-> p[1],
       groupie_active_business_id |-> p[2]] :
        u \in {NULL, "Ola"},
        p \in { << NULL, NULL >>, << OtherCode, "2" >> } }

Init ==
    /\ \E b \in {NULL, "1"} :
          server = [exists |-> TRUE, lobby_code |-> lobbyCode, business_id |-> b,
                    status |-> "OPEN", members |-> << "Kari" >>, ver |-> 0]
    /\ localStorage \in InitStorage
    /\ user = localStorage.groupie_user
    /\ lobby = NoLobby
    /\ isLoading = TRUE
    /\ error = NULL
    /\ hasJoined = FALSE
    /\ prevMemberCountRef = 0
    /\ prevStatusRef = ""
    /\ mounted = FALSE
    /\ inflight = EmptyBag
    /\ toasts = << >>
    /\ isJoining = FALSE
    /\ joinReq = NULL
    /\ joinIsLoggedIn = FALSE
    /\ gateError = NULL
    /\ isToggling = FALSE
    /\ readyReq = FALSE
    /\ tierView = NoTierView
    /\ AuxInit

Next ==
    \/ \E n \in Names : ServerJoin(n)
    \/ ServerLock
    \/ ServerConfirm
    \/ ServerExpire
    \/ ServerPurge
    \/ MountEffect
    \/ PollTick
    \/ DeliverAny
    \/ \E d \in DisplayInputs : JoinStart(d)
    \/ JoinSucceeds
    \/ JoinFails
    \/ ReadyStart
    \/ \E allReady \in BOOLEAN : ReadySucceeds(allReady)
    \/ \E thrown \in BOOLEAN : ReadyFails(thrown)

Spec == Init /\ [][Next]_vars

(***************************************************************************)
(* The tier derivations on their own: every view applied to every member   *)
(* count up to MaxCount and every catalog entry.                           *)
(***************************************************************************)
TierInput(c, b) ==
    /\ tierView' = [NoTierView EXCEPT !.count = c, !.business_id = b]
    /\ UNCHANGED << server, localStorage, user, pageVars, inflight, toasts, gateVars >>
    /\ UNCHANGED auxVars

\* <ProgressBar currentCount={lobby.member_count} />
RenderProgressBar ==
    /\ tierView' = [NoTierView EXCEPT !.view = "ProgressBar",
                                      !.count = tierView.count,
                                      !.business_id = tierView.business_id,
                                      !.currentTier = CurrentTier(tierView.count),
                                      !.nextTier = NextTier(tierView.count),
                                      !.progress = ProgressBarPercent(tierView.count),
                                      !.hintShown = (NextTier(tierView.count) # NoTier)]
    /\ UNCHANGED << server, localStorage, user, pageVars, inflight, toasts, gateVars >>
    /\ UNCHANGED auxVars

\* The confirmed branch: the tier and the price handed to ConfirmedTicket.
RenderConfirmed ==
    /\ tierView' = [NoTierView EXCEPT !.view = "Confirmed",
                                      !.count = tierView.count,
                                      !.business_id = tierView.business_id,
                                      !.currentTier = CurrentTier(tierView.count),
                                      !.price = CurrentPrice(CurrentTier(tierView.count))]
    /\ UNCHANGED << server, localStorage, user, pageVars, inflight, toasts, gateVars >>
    /\ UNCHANGED auxVars

\* The business card of the normal screen (only when the business resolves).
RenderBusinessCard ==
    /\ getBusinessById(tierView.business_id) # NoBusiness
    /\ tierView' = [NoTierView EXCEPT !.view = "BusinessCard",
                                      !.count = tierView.count,
                                      !.business_id = tierView.business_id,
                                      !.currentTier = CurrentTier(tierView.count),
                                      !.priceTier =
                                          CurrentPriceTier(getBusinessById(tierView.business_id),
                                                           tierView.count)]
    /\ UNCHANGED << server, localStorage, user, pageVars, inflight, toasts, gateVars >>
    /\ UNCHANGED auxVars

CapacityInputs == {8, 12}

\* LobbyView: <DiscountProgressBar currentCount=... maxCapacity=... />
RenderDiscountProgressBar(maxCapacity) ==
    /\ tierView' = [NoTierView EXCEPT !.view = "DiscountProgressBar",
                                      !.count = tierView.count,
                                      !.business_id = tierView.business_id,
                                      !.progress =
                                          DiscountProgressPercent(tierView.count, maxCapacity)]
    /\ UNCHANGED << server, localStorage, user, pageVars, inflight, toasts, gateVars >>
    /\ UNCHANGED auxVars

\* The normal screen: <ShareButton currentMembers=... nextTierSize=... />
RenderShareButton ==
    /\ tierView' = [NoTierView EXCEPT !.view = "ShareButton",
                                      !.count = tierView.count,
                                      !.business_id = tierView.business_id,
                                      !.nextTier = ShareNextTier(tierView.count),
                                      !.membersNeeded =
                                          MembersNeeded(ShareNextTier(tierView.count).size,
                                                        tierView.count),
                                      !.badgeShown =
                                          MembersNeeded(ShareNextTier(tierView.count).size,
                                                        tierView.count) > 0]
    /\ UNCHANGED << server, localStorage, user, pageVars, inflight, toasts, gateVars >>
    /\ UNCHANGED auxVars

TierInit ==
    /\ server = [exists |-> TRUE, lobby_code |-> lobbyCode, business_id |-> NULL,
                 status |-> "OPEN", members |-> << "Kari" >>, ver |-> 0]
    /\ localStorage = [groupie_user |-> NULL, groupie_active_lobby |-> NULL,
                       groupie_active_business_id |-> NULL]
    /\ user = NULL
    /\ lobby = NoLobby
    /\ isLoading = TRUE
    /\ error = NULL
    /\ hasJoined = FALSE
    /\ prevMemberCountRef = 0
    /\ prevStatusRef = ""
    /\ mounted = FALSE
    /\ inflight = EmptyBag
    /\ toasts = << >>
    /\ isJoining = FALSE
    /\ joinReq = NULL
    /\ joinIsLoggedIn = FALSE
    /\ gateError = NULL
    /\ isToggling = FALSE
    /\ readyReq = FALSE
    /\ tierView = NoTierView
    /\ AuxInit

TierNext ==
    \/ \E c \in 0..MaxCount, b \in CatalogIds \cup {NULL} : TierInput(c, b)
    \/ RenderProgressBar
    \/ RenderConfirmed
    \/ RenderBusinessCard
    \/ \E maxCapacity \in CapacityInputs : RenderDiscountProgressBar(maxCapacity)
    \/ RenderShareButton

TierSpec == TierInit /\ [][TierNext]_vars

(***************************************************************************)
(* Properties of the tier derivations (under TierSpec)                     *)
(***************************************************************************)
\* The tier of `tiers` the specification selects for a member count: the one
\* with the largest size not above the count, the first one if there is none.
HighestTierWithin(tiers, count) ==
    LET within == { i \in 1..Len(tiers) : tiers[i].size <= count }
    IN  IF within = {} THEN tiers[1]
        ELSE tiers[CHOOSE i \in within : \A j \in within : tiers[j].size <= tiers[i].size]

\* C1: for every member count, the current tier shown by ProgressBar, the
\* confirmed screen and the business card is the DISCOUNT_TIERS entry with the
\* largest size <= count, or the lowest tier (size 2) when none qualifies.
C1_CurrentTierIsHighestReached ==
    tierView.view \in {"ProgressBar", "Confirmed", "BusinessCard"} =>
        /\ tierView.currentTier = HighestTierWithin(DISCOUNT_TIERS, tierView.count)
        /\ tierView.count < 2 => tierView.currentTier.size = 2

C1_Witness ==
    /\ tierView.view = "Confirmed"
    /\ tierView.count = 7
    /\ tierView.currentTier.size = 6

\* C2: for every catalog pricingTiers list and member count, the price tier of
\* the business card is the one with the highest size not exceeding the
\* count, and the smallest tier when the count is below every size.
C2_PriceTierIsHighestReached ==
    tierView.view = "BusinessCard" =>
        tierView.priceTier =
            HighestTierWithin(getBusinessById(tierView.business_id).pricingTiers,
                              tierView.count)

(***************************************************************************)
(* Properties of the lobby page (under Spec)                               *)
(***************************************************************************)
\* This step is fetchLobbyData resuming with the response r.
Processed(r) == BagIn(r, inflight) /\ inflight' = inflight (-) SetToBag({r})

CountKind(ts, kind) == Cardinality({ i \in 1..Len(ts) : ts[i].kind = kind })

Pointer(ls) == << ls.groupie_active_lobby, ls.groupie_active_business_id >>

\* C3: every processed snapshot whose member_count is strictly greater than
\* the previously recorded nonzero member_count shows exactly one "member
\* joined" toast; the first processed snapshot of the page view and every
\* snapshot whose count did not increase show none.
C3_MemberJoinedOncePerIncrease ==
    [][\A r \in BagToSet(inflight) :
          (Processed(r) /\ r.kind = "ok") =>
             /\ CountKind(toasts', "joined") =
                   IF prevMemberCountRef > 0 /\ r.data.member_count > prevMemberCountRef
                   THEN 1 ELSE 0
             /\ ~lobby.present => CountKind(toasts', "joined") = 0
             /\ prevMemberCountRef' = r.data.member_count]_vars

C3_Witness ==
    /\ CountKind(toasts, "joined") = 1
    /\ toasts[1].name = "Ola"
    /\ toasts[1].discount = 20
    /\ prevMemberCountRef = 4

\* C4: the "group locked" toast is shown exactly once for each processed
\* snapshot that is LOCKED while the recorded status is OPEN, and never for a
\* snapshot processed while the recorded status is already LOCKED.
C4_LockedOncePerEdge ==
    [][\A r \in BagToSet(inflight) :
          (Processed(r) /\ r.kind = "ok") =>
             /\ CountKind(toasts', "locked") =
                   IF prevStatusRef = "OPEN" /\ r.data.status = "LOCKED" THEN 1 ELSE 0
             /\ prevStatusRef = "LOCKED" => CountKind(toasts', "locked") = 0
             /\ prevStatusRef' = r.data.status]_vars

C4_Witness ==
    /\ CountKind(toasts, "locked") = 1
    /\ prevStatusRef = "LOCKED"
    /\ lobby.status = "LOCKED"

\* C5: a response that is older than the snapshot already applied is
\* discarded: the displayed snapshot and the recorded previous count and
\* status never go back to an older server state.
C5_NoRegression ==
    [][/\ lobby'.ver >= lobby.ver
       /\ lobby.present => prevMemberCountRef' >= prevMemberCountRef]_vars

\* C6: after a successful snapshot is processed, the pointer equals
\* (lobby_code, business_id) of the snapshot when its status is OPEN, and both
\* pointer keys are absent when its status is EXPIRED or CONFIRMED.
C6_PointerFollowsSnapshot ==
    [][\A r \in BagToSet(inflight) :
          (Processed(r) /\ r.kind = "ok") =>
             /\ r.data.status = "OPEN" =>
                   Pointer(localStorage') = << r.data.lobby_code, r.data.business_id >>
             /\ r.data.status \in {"EXPIRED", "CONFIRMED"} =>
                   Pointer(localStorage') = << NULL, NULL >>]_vars

\* C7: a 404 for this lobby's code removes both pointer keys when the pointer
\* references this code, and leaves the storage unchanged when the pointer
\* references another code.
C7_NotFoundClearsOwnPointer ==
    [][\A r \in BagToSet(inflight) :
          (Processed(r) /\ r.kind = "notfound") =>
             IF localStorage.groupie_active_lobby = lobbyCode
             THEN Pointer(localStorage') = << NULL, NULL >>
             ELSE localStorage' = localStorage]_vars

C7_Witness ==
    /\ error = MSG_NOT_FOUND
    /\ lobby.present /\ lobby.status = "OPEN"
    /\ Pointer(localStorage) = << NULL, NULL >>
    /\ ~server.exists

\* C8: the screen rendered after a network failure (or a non-404 error
\* status) differs from the screen the same page renders after a 404.
C8_ErrorScreensDiffer ==
    error = MSG_NO_SERVER =>
        Screen # ScreenContent(SelectScreen(isLoading, MSG_NOT_FOUND, lobby, user, hasJoined),
                               MSG_NOT_FOUND, lobby)

\* C9: the screen is selected by strict first-match order: loading; else
\* error/not-found; else join gate; else confirmed; else the normal screen.
C9_GateOrder ==
    LET failed == error # NULL \/ ~lobby.present
        stranger == user = NULL \/ user \notin Range(lobby.members)
        gated == stranger /\ ~hasJoined
    IN  /\ isLoading => ScreenKind = "loading"
        /\ (~isLoading /\ failed) => ScreenKind = "error"
        /\ (~isLoading /\ ~failed /\ gated) => ScreenKind = "join"
        /\ (~isLoading /\ ~failed /\ ~gated /\ lobby.status = "CONFIRMED") =>
              ScreenKind = "confirmed"
        /\ (~isLoading /\ ~failed /\ ~gated /\ lobby.status # "CONFIRMED") =>
              ScreenKind = "normal"

C9_Witness ==
    /\ ScreenKind = "join"
    /\ user = "Ola"
    /\ lobby.status = "CONFIRMED"
    /\ ~hasJoined

\* C10: once the confirmed screen is rendered, no later poll result (another
\* status, a 404 or a network failure) changes the rendered screen.
C10_ConfirmedIsTerminal ==
    [][(ScreenKind = "confirmed" /\ \E r \in BagToSet(inflight) : Processed(r)) =>
          ScreenKind' = "confirmed"]_vars

\* This step is JoinGate.handleJoin running up to its await (or its early return).
JoinInvoked == \E d \in DisplayInputs : JoinStart(d)

\* C11: when the join action is invoked from the join gate while the latest
\* snapshot has status LOCKED, no POST .../join request is sent, and the
\* identity, hasJoined and the displayed screen stay unchanged.
C11_LockedJoinNotSent ==
    [][(lobby.status = "LOCKED" /\ JoinInvoked) =>
          /\ joinReq' = NULL
          /\ user' = user
          /\ localStorage'.groupie_user = localStorage.groupie_user
          /\ hasJoined' = hasJoined
          /\ Screen' = Screen]_vars

\* C12: when a join request is rejected or fails on the network, the in-memory
\* identity, the persisted guest identity record, hasJoined and the
\* active-lobby pointer are what they were before the attempt, also when the
\* user was not logged in when the join was started.
C12_FailedJoinMutatesNothing ==
    [][JoinFails =>
          /\ user' = (IF joinIsLoggedIn THEN user ELSE NULL)
          /\ localStorage'.groupie_user =
                (IF joinIsLoggedIn THEN localStorage.groupie_user ELSE NULL)
          /\ hasJoined' = FALSE
          /\ Pointer(localStorage') = Pointer(localStorage)]_vars

(***************************************************************************)
(* The session across pages: the router, the login page, logout, and the   *)
(* pages that read and invalidate the active-lobby pointer                 *)
(***************************************************************************)
Routes == {"lobby", "landing", "login", "start", "business", "elsewhere"}
NameInputs == {"", " ", " A ", " Ola "}
BusinessParam == "1"                 \* the [id] segment of the business route
MSG_NAME_REQUIRED == "Vennligst skriv inn et navn"
MSG_NAME_TOO_SHORT == "Navnet må være minst 2 tegn"

\* No request of the lobby page awaits its response.
Quiescent == inflight = EmptyBag /\ joinReq = NULL /\ ~readyReq

\* A page that keeps its previous-snapshot refs when it is mounted again.
MutLobbyPageReset ==
    /\ lobby' = NoLobby
    /\ isLoading' = TRUE
    /\ error' = NULL
    /\ hasJoined' = FALSE
    /\ UNCHANGED << prevMemberCountRef, prevStatusRef >>
    /\ mounted' = FALSE
    /\ isJoining' = FALSE
    /\ gateError' = NULL
    /\ isToggling' = FALSE

\* The state of a LobbyPage that is not mounted (its useState initial values).
LobbyPageReset ==
    /\ lobby' = NoLobby
    /\ isLoading' = TRUE
    /\ error' = NULL
    /\ hasJoined' = FALSE
    /\ prevMemberCountRef' = 0
    /\ prevStatusRef' = ""
    /\ mounted' = FALSE
    /\ isJoining' = FALSE
    /\ gateError' = NULL
    /\ isToggling' = FALSE

\* The state of the other pages when they are not mounted.
OtherPagesReset ==
    /\ loginError' = NULL
    /\ navActiveLobbyCode' = NULL
    /\ navIsValidLobby' = FALSE
    /\ startActiveLobbyCode' = NULL
    /\ bizActiveLobbyCode' = NULL
    /\ bizActiveLobbyBusinessId' = NULL
    /\ isCreating' = FALSE
    /\ isLeaderOfEmptyLobby' = FALSE

\* router.push(`/lobby/${code}`)
LobbyRoute(code) == IF code = lobbyCode THEN "lobby" ELSE "elsewhere"

\* GET /lobbies/{code} as the other pages see it: ok, an error status, or a
\* network failure.  Only lobby ABC is tracked; any other lobby may be in any state.
LobbyLookup(code, srv) ==
    IF code = lobbyCode
    THEN { IF srv.exists THEN "ok" ELSE "notok", "neterr" }
    ELSE { "ok", "notok", "neterr" }

\* The Navbar is unmounted: the validations it awaits still get their
\* response, but the state setters of the unmounted component do nothing.
NavbarUnmount == navInflight' = { [v EXCEPT !.live = FALSE] : v \in navInflight }

\* The router replaces the page: the page left is unmounted.
Navigate(to) ==
    /\ to # route
    /\ Quiescent
    /\ route' = to
    /\ LobbyPageReset
    /\ OtherPagesReset
    /\ toasts' = << >>
    /\ NavbarUnmount
    /\ UNCHANGED << server, localStorage, user, inflight, joinReq, joinIsLoggedIn,
                    readyReq, tierView >>
    /\ UNCHANGED widgetVars
    /\ UNCHANGED << navLastResult, orphaned, orphanPrevCount, orphanPrevStatus,
                    createReq >>

\* The lobbies another code of the route may name.
OtherLobbies ==
    { [exists |-> TRUE, lobby_code |-> lobbyCode, business_id |-> NULL,
       status |-> st, members |-> ms, ver |-> 0] :
         st \in {"OPEN", "LOCKED"}, ms \in { << "Kari" >>, << "Kari", "Per" >> } }

\* The model names the code of the route lobbyCode and every other code
\* OtherCode; when the route changes to another code the two names trade places.
SwapCodes(ls) ==
    [ls EXCEPT !.groupie_active_lobby =
                   IF @ = lobbyCode THEN OtherCode
                   ELSE IF @ = OtherCode THEN lobbyCode ELSE @]

\* router.push(`/lobby/${code}`) to a different code while a lobby page is
\* shown: the [code] segment changes, the page is mounted anew for the lobby
\* `other`, which from now on is the lobby of the route.
OpenOtherLobby(other) ==
    /\ route = "lobby"
    /\ Quiescent /\ orphaned = EmptyBag
    /\ server' = other
    /\ localStorage' = SwapCodes(localStorage)
    /\ LobbyPageReset
    /\ toasts' = << >>
    /\ UNCHANGED << user, inflight, joinReq, joinIsLoggedIn, readyReq, tierView,
                    sessionVars, widgetVars >>

\* LoginPage.handleSubmit
LoginSubmit(d) ==
    /\ route = "login"
    /\ IF Trim(d) = ""
       THEN /\ loginError' = MSG_NAME_REQUIRED
            /\ UNCHANGED << user, localStorage, route >>
       ELSE IF Len(Trim(d)) < 2
       THEN /\ loginError' = MSG_NAME_TOO_SHORT
            /\ UNCHANGED << user, localStorage, route >>
       ELSE /\ user' = LoginName(Trim(d))
            /\ localStorage' = [localStorage EXCEPT !.groupie_user = LoginName(Trim(d))]
            /\ route' = "landing"
            /\ loginError' = NULL
    /\ UNCHANGED << server, pageVars, inflight, toasts, gateVars, tierView,
                    navActiveLobbyCode, navIsValidLobby, startActiveLobbyCode,
                    bizActiveLobbyCode, bizActiveLobbyBusinessId >>
    /\ UNCHANGED widgetVars
    /\ UNCHANGED asyncVars
    /\ UNCHANGED bizFlags

\* LoginPage: useEffect(() => { if (isAuthenticated) router.push('/') })
LoginRedirect ==
    /\ route = "login" /\ user # NULL
    /\ route' = "landing"
    /\ loginError' = NULL
    /\ UNCHANGED << server, localStorage, user, pageVars, inflight, toasts, gateVars,
                    tierView, navActiveLobbyCode, navIsValidLobby, startActiveLobbyCode,
                    bizActiveLobbyCode, bizActiveLobbyBusinessId >>
    /\ UNCHANGED widgetVars
    /\ UNCHANGED asyncVars
    /\ UNCHANGED bizFlags

\* StartGroupPage: useEffect(() => { if (!isAuthenticated) router.push('/login') })
StartRedirect ==
    /\ route = "start" /\ user = NULL
    /\ route' = "login"
    /\ startActiveLobbyCode' = NULL
    /\ UNCHANGED << server, localStorage, user, pageVars, inflight, toasts, gateVars,
                    tierView, loginError, navActiveLobbyCode, navIsValidLobby,
                    bizActiveLobbyCode, bizActiveLobbyBusinessId >>
    /\ UNCHANGED widgetVars
    /\ UNCHANGED asyncVars
    /\ UNCHANGED bizFlags

\* A logout that forgets the business id of the pointer.
MutLogoutStorage(ls) ==
    [ls EXCEPT !.groupie_user = NULL, !.groupie_active_lobby = NULL]

\* logout(): the three removeItem calls.
LogoutStorage(ls) ==
    [ls EXCEPT !.groupie_user = NULL, !.groupie_active_lobby = NULL,
               !.groupie_active_business_id = NULL]

\* Navbar: onClick={logout}
Logout ==
    /\ route = "landing" /\ user # NULL
    /\ user' = NULL
    /\ localStorage' = LogoutStorage(localStorage)
    /\ UNCHANGED << server, pageVars, inflight, toasts, gateVars, tierView, sessionVars >>
    /\ UNCHANGED widgetVars

\* LobbyPage header: logout(); window.location.reload()
LobbyLogout ==
    /\ route = "lobby" /\ ScreenKind = "normal"
    /\ Quiescent
    /\ user' = NULL
    /\ localStorage' = LogoutStorage(localStorage)
    /\ LobbyPageReset
    /\ toasts' = << >>
    /\ UNCHANGED << server, inflight, joinReq, joinIsLoggedIn, readyReq, tierView,
                    sessionVars >>
    /\ UNCHANGED widgetVars

\* LobbyPage: "Forlat gruppe" (the confirm dialog is accepted).  The page is
\* unmounted; the fetches it awaits are not aborted and resume in the closure
\* of the unmounted page, with its refs.
LeaveGroup ==
    /\ route = "lobby" /\ ScreenKind = "normal"
    /\ joinReq = NULL /\ ~readyReq
    /\ orphaned = EmptyBag
    /\ localStorage' = ClearPointer(localStorage)
    /\ route' = "landing"
    /\ LobbyPageReset
    /\ OtherPagesReset
    /\ toasts' = << Toast("left", NULL, 0) >>
    /\ inflight' = EmptyBag
    /\ orphaned' = inflight
    /\ orphanPrevCount' = IF inflight = EmptyBag THEN 0 ELSE prevMemberCountRef
    /\ orphanPrevStatus' = IF inflight = EmptyBag THEN "" ELSE prevStatusRef
    /\ UNCHANGED << server, user, joinReq, joinIsLoggedIn, readyReq, tierView >>
    /\ UNCHANGED widgetVars
    /\ UNCHANGED << navInflight, navLastResult, createReq >>

\* fetchLobbyData resumes after `await fetch(...)` on a page that has been
\* unmounted: the state setters do nothing, the toasts, the refs and the
\* storage writes happen as on a mounted page.
OrphanDeliver(r) ==
    /\ BagIn(r, orphaned)
    /\ orphaned' = orphaned (-) SetToBag({r})
    /\ LET last == orphaned' = EmptyBag
       IN  IF r.kind = "ok"
           THEN /\ toasts' = MemberJoinedToasts(orphanPrevCount, r.data)
                                 \o LockedToasts(orphanPrevStatus, r.data)
                /\ orphanPrevCount' = IF last THEN 0 ELSE r.data.member_count
                /\ orphanPrevStatus' = IF last THEN "" ELSE r.data.status
                /\ localStorage' = PointerAfterFetch(localStorage, r.data)
           ELSE /\ toasts' = << >>
                /\ orphanPrevCount' = IF last THEN 0 ELSE orphanPrevCount
                /\ orphanPrevStatus' = IF last THEN "" ELSE orphanPrevStatus
                /\ UNCHANGED localStorage
    /\ UNCHANGED << server, user, pageVars, inflight, gateVars, tierView >>
    /\ UNCHANGED << route, loginError, navActiveLobbyCode, navIsValidLobby,
                    startActiveLobbyCode, bizActiveLobbyCode, bizActiveLobbyBusinessId,
                    bizFlags, navInflight, navLastResult, createReq >>
    /\ UNCHANGED widgetVars

\* The pointer pairs another tab of the same origin may write.
TabPointers == { << NULL, NULL >>, << lobbyCode, NULL >>, << OtherCode, "2" >> }

\* Another tab changes the pointer; this tab is told by a storage event.
OtherTabWrites(p) ==
    /\ route = "landing"
    /\ p # Pointer(localStorage)
    /\ localStorage' = [localStorage EXCEPT !.groupie_active_lobby = p[1],
                                            !.groupie_active_business_id = p[2]]
    /\ UNCHANGED << server, user, pageVars, inflight, toasts, gateVars, tierView,
                    sessionVars, widgetVars >>

\* Navbar.checkActiveLobby (mount, the 5 s interval, a storage event) up to
\* the await of validateLobby's fetch; `outcome` is what the server will answer.
NavbarCheck(outcome) ==
    /\ route = "landing"
    /\ LET savedLobby == localStorage.groupie_active_lobby
       IN  IF savedLobby = NULL
           THEN /\ navActiveLobbyCode' = NULL
                /\ navIsValidLobby' = FALSE
                /\ UNCHANGED navInflight
           ELSE /\ Cardinality(navInflight) < MaxNavInflight
                /\ outcome \in LobbyLookup(savedLobby, server)
                /\ navActiveLobbyCode' = savedLobby
                /\ UNCHANGED navIsValidLobby
                /\ navInflight' = navInflight \cup
                       { [code |-> savedLobby, outcome |-> outcome, live |-> TRUE] }
    /\ UNCHANGED << server, localStorage, user, pageVars, inflight, toasts, gateVars,
                    tierView, route, loginError, startActiveLobbyCode,
                    bizActiveLobbyCode, bizActiveLobbyBusinessId >>
    /\ UNCHANGED widgetVars
    /\ UNCHANGED << navLastResult, orphaned, orphanPrevCount, orphanPrevStatus,
                    createReq >>
    /\ UNCHANGED bizFlags

\* Navbar.validateLobby after the await: the response of validation v arrives.
NavbarValidated(v) ==
    /\ v \in navInflight
    /\ navInflight' = navInflight \ {v}
    /\ navLastResult' = [c \in DOMAIN navLastResult |->
                            IF c = v.code THEN v.outcome ELSE navLastResult[c]]
    /\ CASE v.outcome = "ok" ->
              /\ navIsValidLobby' = (IF v.live THEN TRUE ELSE navIsValidLobby)
              /\ UNCHANGED << localStorage, navActiveLobbyCode >>
         [] v.outcome = "notok" ->
              /\ localStorage' = ClearPointer(localStorage)
              /\ navActiveLobbyCode' = (IF v.live THEN NULL ELSE navActiveLobbyCode)
              /\ navIsValidLobby' = (IF v.live THEN FALSE ELSE navIsValidLobby)
         [] OTHER ->
              /\ navIsValidLobby' = (IF v.live THEN FALSE ELSE navIsValidLobby)
              /\ UNCHANGED << localStorage, navActiveLobbyCode >>
    /\ UNCHANGED << server, user, pageVars, inflight, toasts, gateVars, tierView,
                    route, loginError, startActiveLobbyCode,
                    bizActiveLobbyCode, bizActiveLobbyBusinessId >>
    /\ UNCHANGED widgetVars
    /\ UNCHANGED << orphaned, orphanPrevCount, orphanPrevStatus, createReq >>
    /\ UNCHANGED bizFlags

\* Navbar: the "Min gruppe" link replaces the "Start en gruppe" button.
MinGruppeShown == route = "landing" /\ navActiveLobbyCode # NULL /\ navIsValidLobby

\* Navbar: onClick of "Start en gruppe"; a created lobby gets the code OtherCode.
NavbarStartGroup(created) ==
    /\ route = "landing" /\ ~MinGruppeShown
    /\ IF user = NULL
       THEN /\ route' = "login"
            /\ OtherPagesReset
            /\ NavbarUnmount
            /\ UNCHANGED localStorage
       ELSE IF created
       THEN /\ localStorage' = [localStorage EXCEPT !.groupie_active_lobby = OtherCode]
            /\ route' = LobbyRoute(OtherCode)
            /\ OtherPagesReset
            /\ NavbarUnmount
       ELSE UNCHANGED << localStorage, route, loginError, navActiveLobbyCode,
                         navIsValidLobby, startActiveLobbyCode, bizActiveLobbyCode,
                         bizActiveLobbyBusinessId, bizFlags, navInflight >>
    /\ UNCHANGED << server, user, pageVars, inflight, toasts, gateVars, tierView >>
    /\ UNCHANGED widgetVars
    /\ UNCHANGED << navLastResult, orphaned, orphanPrevCount, orphanPrevStatus,
                    createReq >>

\* StartGroupPage.checkActiveLobby
StartCheck(outcome) ==
    /\ route = "start"
    /\ LET savedLobby == localStorage.groupie_active_lobby
       IN  IF savedLobby = NULL
           THEN /\ startActiveLobbyCode' = NULL
                /\ UNCHANGED localStorage
           ELSE /\ outcome \in LobbyLookup(savedLobby, server)
                /\ IF outcome = "notok"
                   THEN /\ localStorage' = [localStorage EXCEPT !.groupie_active_lobby = NULL]
                        /\ startActiveLobbyCode' = NULL
                   ELSE /\ startActiveLobbyCode' = savedLobby
                        /\ UNCHANGED localStorage
    /\ UNCHANGED << server, user, pageVars, inflight, toasts, gateVars, tierView,
                    route, loginError, navActiveLobbyCode, navIsValidLobby,
                    bizActiveLobbyCode, bizActiveLobbyBusinessId >>
    /\ UNCHANGED widgetVars
    /\ UNCHANGED asyncVars
    /\ UNCHANGED bizFlags

\* BusinessDetailPage.checkActiveLobby (business_id and leader_name are the
\* server's; the leader of a lobby is its first member)
BusinessCheck(outcome, serverBusiness, isLeader) ==
    /\ route = "business"
    /\ LET savedLobby == localStorage.groupie_active_lobby
           savedBusinessId == localStorage.groupie_active_business_id
       IN  IF savedLobby = NULL
           THEN UNCHANGED << bizActiveLobbyCode, bizActiveLobbyBusinessId,
                             isLeaderOfEmptyLobby >>
           ELSE /\ outcome \in LobbyLookup(savedLobby, server)
                /\ savedLobby = lobbyCode =>
                      /\ serverBusiness = server.business_id
                      /\ isLeader = (server.members # << >> /\ server.members[1] = user)
                /\ bizActiveLobbyCode' = savedLobby
                /\ bizActiveLobbyBusinessId' =
                      IF outcome = "ok" /\ serverBusiness # NULL THEN serverBusiness
                      ELSE savedBusinessId
                /\ isLeaderOfEmptyLobby' =
                      IF outcome = "ok" THEN isLeader ELSE isLeaderOfEmptyLobby
    /\ UNCHANGED << server, localStorage, user, pageVars, inflight, toasts, gateVars,
                    tierView, route, loginError, navActiveLobbyCode, navIsValidLobby,
                    startActiveLobbyCode, isCreating >>
    /\ UNCHANGED widgetVars
    /\ UNCHANGED asyncVars

\* The request createNewGroup or attachBusinessToLobby awaits.  `before` is
\* the pointer as it was when the button was clicked.
CreateRequest(kind, replaced) ==
    [kind |-> kind, replaced |-> replaced, before |-> Pointer(localStorage)]

\* BusinessDetailPage.handleStartGroup, with createNewGroup up to its
\* `await fetch(.../lobbies)`.
BusinessStartGroup(confirmReplace) ==
    /\ route = "business" /\ ~isCreating /\ ~isLeaderOfEmptyLobby
    /\ LET goto(r) ==
               /\ route' = r
               /\ OtherPagesReset
               /\ UNCHANGED << localStorage, createReq >>
           create(ls, replaced) ==
               /\ localStorage' = ls
               /\ isCreating' = TRUE
               /\ createReq' = CreateRequest("create", replaced)
               /\ bizActiveLobbyCode' = IF replaced THEN NULL ELSE bizActiveLobbyCode
               /\ bizActiveLobbyBusinessId' =
                     IF replaced THEN NULL ELSE bizActiveLobbyBusinessId
               /\ UNCHANGED << route, loginError, navActiveLobbyCode, navIsValidLobby,
                               startActiveLobbyCode, isLeaderOfEmptyLobby >>
       IN  IF user = NULL
           THEN goto("login")
           ELSE IF bizActiveLobbyCode # NULL /\ bizActiveLobbyBusinessId = BusinessParam
           THEN goto(LobbyRoute(bizActiveLobbyCode))
           ELSE IF /\ bizActiveLobbyCode # NULL
                   /\ bizActiveLobbyBusinessId # NULL
                   /\ bizActiveLobbyBusinessId # BusinessParam
           THEN IF confirmReplace
                THEN create(ClearPointer(localStorage), TRUE)
                ELSE goto(LobbyRoute(bizActiveLobbyCode))
           ELSE create(localStorage, FALSE)
    /\ UNCHANGED << server, user, pageVars, inflight, toasts, gateVars, tierView >>
    /\ UNCHANGED widgetVars
    /\ UNCHANGED << navInflight, navLastResult, orphaned, orphanPrevCount,
                    orphanPrevStatus >>

\* BusinessDetailPage.attachBusinessToLobby up to its `await fetch` (PATCH).
BusinessAttach(confirmSwitch) ==
    /\ route = "business" /\ ~isCreating /\ isLeaderOfEmptyLobby
    /\ IF \/ bizActiveLobbyCode = NULL
          \/ /\ bizActiveLobbyBusinessId # NULL
             /\ bizActiveLobbyBusinessId # BusinessParam
             /\ ~confirmSwitch
       THEN UNCHANGED << isCreating, createReq >>
       ELSE /\ isCreating' = TRUE
            /\ createReq' = CreateRequest("attach", FALSE)
    /\ UNCHANGED << server, localStorage, user, pageVars, inflight, toasts, gateVars,
                    tierView, route, loginError, navActiveLobbyCode, navIsValidLobby,
                    startActiveLobbyCode, bizActiveLobbyCode, bizActiveLobbyBusinessId,
                    isLeaderOfEmptyLobby >>
    /\ UNCHANGED widgetVars
    /\ UNCHANGED << navInflight, navLastResult, orphaned, orphanPrevCount,
                    orphanPrevStatus >>

\* createNewGroup / attachBusinessToLobby after the await.  A created lobby
\* gets the code OtherCode.
BusinessResponse(ok) ==
    /\ route = "business" /\ createReq # NoRequest
    /\ createReq' = NoRequest
    /\ IF ok /\ createReq.kind = "create"
       THEN /\ localStorage' =
                  [localStorage EXCEPT !.groupie_active_lobby = ToStorageString(OtherCode),
                                       !.groupie_active_business_id =
                                           ToStorageString(BusinessParam)]
            /\ toasts' = << Toast("created", NULL, 0) >>
            /\ route' = LobbyRoute(OtherCode)
            /\ OtherPagesReset
            /\ UNCHANGED server
       ELSE IF ok
       THEN /\ bizActiveLobbyCode = lobbyCode => server.exists
            /\ server' = IF bizActiveLobbyCode = lobbyCode
                         THEN ServerBump([server EXCEPT !.business_id = BusinessParam])
                         ELSE server
            /\ localStorage' = [localStorage EXCEPT !.groupie_active_business_id =
                                                       ToStorageString(BusinessParam)]
            /\ toasts' = << Toast("attached", NULL, 0) >>
            /\ route' = LobbyRoute(bizActiveLobbyCode)
            /\ OtherPagesReset
       ELSE /\ toasts' = << Toast(IF createReq.kind = "create" THEN "createFailed"
                                  ELSE "attachFailed", NULL, 0) >>
            /\ isCreating' = FALSE
            /\ UNCHANGED << server, localStorage, route, loginError, navActiveLobbyCode,
                            navIsValidLobby, startActiveLobbyCode, bizActiveLobbyCode,
                            bizActiveLobbyBusinessId, isLeaderOfEmptyLobby >>
    /\ UNCHANGED << user, pageVars, inflight, gateVars, tierView >>
    /\ UNCHANGED widgetVars
    /\ UNCHANGED << navInflight, navLastResult, orphaned, orphanPrevCount,
                    orphanPrevStatus >>

\* The handlers of the lobby page run while it is the page shown.  The pages
\* are visited one after the other here: the landing page is left when its
\* validations have returned (NavbarSpec explores the ones that return later).
SessionNext ==
    \/ route = "lobby" /\ MountEffect
    \/ route = "lobby" /\ PollTick
    \/ route = "lobby" /\ DeliverAny
    \/ route = "lobby" /\ \E d \in NameInputs : JoinStart(d)
    \/ route = "lobby" /\ JoinSucceeds
    \/ route = "lobby" /\ JoinFails
    \/ ServerPurge
    \/ /\ navInflight = {} /\ createReq = NoRequest /\ orphaned = EmptyBag
       /\ \E to \in Routes : Navigate(to)
    \/ \E other \in OtherLobbies : OpenOtherLobby(other)
    \/ \E d \in NameInputs : LoginSubmit(d)
    \/ LoginRedirect
    \/ StartRedirect
    \/ Logout
    \/ LobbyLogout
    \/ LeaveGroup
    \/ \E r \in BagToSet(orphaned) : OrphanDeliver(r)
    \/ \E outcome \in {"ok", "notok", "neterr"} : NavbarCheck(outcome)
    \/ \E v \in navInflight : NavbarValidated(v)
    \/ \E outcome \in {"ok", "notok", "neterr"} : StartCheck(outcome)
    \/ \E outcome \in {"ok", "notok", "neterr"}, b \in {NULL, "1", "2"},
          isLeader \in BOOLEAN : BusinessCheck(outcome, b, isLeader)
    \/ \E confirmReplace \in BOOLEAN : BusinessStartGroup(confirmReplace)
    \/ \E confirmSwitch \in BOOLEAN : BusinessAttach(confirmSwitch)
    \/ \E ok \in BOOLEAN : BusinessResponse(ok)

SessionSpec == Init /\ [][SessionNext]_vars

(***************************************************************************)
(* Properties of the session (under SessionSpec)                           *)
(***************************************************************************)
\* C13: no submission whose trimmed name is empty or shorter than 2
\* characters creates an identity or reaches the network, on the login page
\* or on the join gate: every identity created and every join request sent
\* carries a trimmed name of length >= 2.
C13_ShortNamesBlocked ==
    [][/\ (user' # user /\ user' # NULL) => Len(user') >= 2
       /\ (joinReq' # joinReq /\ joinReq' # NULL) => Len(joinReq') >= 2]_vars

NoStorage ==
    [groupie_user |-> NULL, groupie_active_lobby |-> NULL,
     groupie_active_business_id |-> NULL]

\* C14: after logout() returns, the in-memory identity is null and the three
\* persisted keys (groupie_user, groupie_active_lobby,
\* groupie_active_business_id) are absent, whatever they held before.
C14_LogoutClearsEverything ==
    [][(Logout \/ LobbyLogout) => (user' = NULL /\ localStorage' = NoStorage)]_vars

C14_Witness ==
    /\ "Ola" \in Range(server.members)
    /\ user = NULL
    /\ localStorage = NoStorage
    /\ route = "lobby"

\* C15: every pointer invalidation on any page removes the active-lobby code
\* and the active-lobby business id together: no reachable storage state
\* holds groupie_active_business_id while groupie_active_lobby is absent.
C15_NoOrphanBusinessId ==
    localStorage.groupie_active_lobby = NULL =>
        localStorage.groupie_active_business_id = NULL

(***************************************************************************)
(* usePolling                                                              *)
(***************************************************************************)
Delays == {NullDelay, POLL_INTERVAL_MS}

\* An interval effect that returns no cleanup: nothing is cleared.
MutClearedByCleanup(id) == {}

\* The cleanup of the interval effect: () => clearInterval(id), or none when
\* the effect ran with delay === null.
ClearedByCleanup(id) == IF id = NoTimer THEN {} ELSE {id}

\* The interval effect: its previous cleanup (when rerun or on unmount), then
\* its body under the delay `delay` (`run` is FALSE on unmount).
IntervalEffect(run, delay) ==
    LET cleared == ClearedByCleanup(cleanupId)
        kept == liveTimers \ cleared
        sets == run /\ delay # NullDelay
    IN  /\ clearCount' = [id \in 1..MaxTimers |->
                             IF id \in cleared THEN clearCount[id] + 1 ELSE clearCount[id]]
        /\ liveTimers' = IF sets THEN kept \cup {nextTimerId} ELSE kept
        /\ cleanupId' = IF sets THEN nextTimerId ELSE NoTimer
        /\ nextTimerId' = IF sets THEN nextTimerId + 1 ELSE nextTimerId

\* The component mounts: both effects run.
HookMount(delay) ==
    /\ ~hookMounted
    /\ delay # NullDelay => nextTimerId <= MaxTimers
    /\ hookMounted' = TRUE
    /\ hookDelay' = delay
    /\ savedCallback' = callback
    /\ IntervalEffect(TRUE, delay)
    /\ UNCHANGED << callback, pollCalls, lastCalled >>
    /\ UNCHANGED << server, localStorage, user, pageVars, inflight, toasts, gateVars,
                    tierView, sessionVars, cdVars >>

\* The component renders again with a new callback closure and a delay; the
\* interval effect reruns only when the delay differs from the previous one.
HookRender(cb, delay) ==
    /\ hookMounted
    /\ (delay # NullDelay /\ delay # hookDelay) => nextTimerId <= MaxTimers
    /\ callback' = cb
    /\ savedCallback' = cb
    /\ hookDelay' = delay
    /\ IF delay # hookDelay
       THEN IntervalEffect(TRUE, delay)
       ELSE UNCHANGED << clearCount, liveTimers, cleanupId, nextTimerId >>
    /\ UNCHANGED << hookMounted, pollCalls, lastCalled >>
    /\ UNCHANGED << server, localStorage, user, pageVars, inflight, toasts, gateVars,
                    tierView, sessionVars, cdVars >>

\* The component unmounts: the cleanup of the interval effect runs.
HookUnmount ==
    /\ hookMounted
    /\ hookMounted' = FALSE
    /\ IntervalEffect(FALSE, NullDelay)
    /\ UNCHANGED << hookDelay, callback, savedCallback, pollCalls, lastCalled >>
    /\ UNCHANGED << server, localStorage, user, pageVars, inflight, toasts, gateVars,
                    tierView, sessionVars, cdVars >>

\* A live timer fires: tick = () => { savedCallback.current(); }
TimerTick(id) ==
    /\ id \in liveTimers
    /\ pollCalls < MaxPollCalls
    /\ pollCalls' = pollCalls + 1
    /\ lastCalled' = savedCallback
    /\ UNCHANGED << hookMounted, hookDelay, callback, savedCallback, cleanupId,
                    liveTimers, nextTimerId, clearCount >>
    /\ UNCHANGED << server, localStorage, user, pageVars, inflight, toasts, gateVars,
                    tierView, sessionVars, cdVars >>

PollingNext ==
    \/ \E delay \in Delays : HookMount(delay)
    \/ \E cb \in 0..(NumCallbacks - 1), delay \in Delays : HookRender(cb, delay)
    \/ HookUnmount
    \/ \E id \in 1..MaxTimers : TimerTick(id)

PollingSpec == TierInit /\ [][PollingNext]_vars

\* C16: for every sequence of mount, delay change and unmount, at most one
\* interval timer of the hook is live at any time, each created timer is
\* cleared exactly once (never twice, and once as soon as it is not live), no
\* timer is live while the delay is null or the component is unmounted, and
\* the callback is not invoked then.
C16_OneTimerClearedOnce ==
    /\ [](Cardinality(liveTimers) <= 1)
    /\ [](\A id \in 1..(nextTimerId - 1) :
             clearCount[id] = IF id \in liveTimers THEN 0 ELSE 1)
    /\ []((~hookMounted \/ hookDelay = NullDelay) => liveTimers = {})
    /\ [][pollCalls' # pollCalls => (hookMounted /\ hookDelay # NullDelay)]_vars

C16_Witness ==
    /\ ~hookMounted
    /\ nextTimerId = MaxTimers + 1
    /\ liveTimers = {}
    /\ \A id \in 1..MaxTimers : clearCount[id] = 1
    /\ pollCalls = MaxPollCalls
    /\ lastCalled = 1

(***************************************************************************)
(* CountdownTimer                                                          *)
(***************************************************************************)
ExpiryInputs == {1000, 2500}

\* Math.max(0, Math.floor((expires - now) / 1000))
Remaining(expires, t) == Max(0, (expires - t) \div 1000)

\* The expiry test without the guard on the captured isExpired.
MutFiresExpired(remaining, capturedIsExpired) == remaining = 0

\* remaining === 0 && !isExpired
FiresExpired(remaining, capturedIsExpired) == remaining = 0 /\ ~capturedIsExpired

\* calculateRemaining() called from a closure that captured `captured`, and the
\* render that follows: when isExpired changed, the effect is rerun (its
\* dependency changed) and calls calculateRemaining() once more.
Calculate(expires, captured) ==
    LET remaining == Remaining(expires, now)
        fires == FiresExpired(remaining, captured)
        expiredNow == isExpired \/ fires
        rerun == expiredNow # captured
        firesAgain == rerun /\ FiresExpired(remaining, expiredNow)
        calls == (IF fires THEN 1 ELSE 0) + (IF firesAgain THEN 1 ELSE 0)
        zeros == IF remaining = 0 THEN (IF rerun THEN 2 ELSE 1) ELSE 0
    IN  /\ timeRemaining' = remaining
        /\ isExpired' = expiredNow
        /\ effectIsExpired' = IF rerun THEN expiredNow ELSE captured
        /\ onExpiredCalls' = Min(MaxCalls, onExpiredCalls + calls)
        /\ zeroComputations' = Min(MaxCalls, zeroComputations + zeros)

\* The component mounts (timeRemaining 0, isExpired false) and its effect runs.
CountdownMount(e) ==
    /\ ~cdMounted
    /\ cdMounted' = TRUE
    /\ expiresAt' = e
    /\ mountedAt' = now
    /\ LET remaining == Remaining(e, now)
           fires == FiresExpired(remaining, FALSE)
           firesAgain == fires /\ FiresExpired(remaining, TRUE)
       IN  /\ timeRemaining' = remaining
           /\ isExpired' = fires
           /\ effectIsExpired' = fires
           /\ onExpiredCalls' = (IF fires THEN 1 ELSE 0) + (IF firesAgain THEN 1 ELSE 0)
           /\ zeroComputations' = IF remaining = 0 THEN (IF fires THEN 2 ELSE 1) ELSE 0
    /\ cdInterval' = TRUE
    /\ UNCHANGED now
    /\ UNCHANGED << server, localStorage, user, pageVars, inflight, toasts, gateVars,
                    tierView, sessionVars, pollVars >>

\* setInterval(calculateRemaining, 1000) fires.
CountdownTick ==
    /\ cdMounted /\ cdInterval
    /\ Calculate(expiresAt, effectIsExpired)
    /\ UNCHANGED << cdMounted, expiresAt, now, mountedAt, cdInterval >>
    /\ UNCHANGED << server, localStorage, user, pageVars, inflight, toasts, gateVars,
                    tierView, sessionVars, pollVars >>

\* LobbyPage renders again: onExpired is a new closure, so the effect is rerun
\* (cleanup, calculateRemaining(), a new interval).
CountdownParentRender ==
    /\ cdMounted
    /\ Calculate(expiresAt, isExpired)
    /\ cdInterval' = TRUE
    /\ UNCHANGED << cdMounted, expiresAt, now, mountedAt >>
    /\ UNCHANGED << server, localStorage, user, pageVars, inflight, toasts, gateVars,
                    tierView, sessionVars, pollVars >>

CountdownUnmount ==
    /\ cdMounted
    /\ cdMounted' = FALSE
    /\ cdInterval' = FALSE
    /\ UNCHANGED << expiresAt, now, mountedAt, timeRemaining, isExpired, effectIsExpired,
                    onExpiredCalls, zeroComputations >>
    /\ UNCHANGED << server, localStorage, user, pageVars, inflight, toasts, gateVars,
                    tierView, sessionVars, pollVars >>

ClockAdvance ==
    /\ now + ClockStep <= MaxNow
    /\ now' = now + ClockStep
    /\ UNCHANGED << cdMounted, expiresAt, mountedAt, timeRemaining, isExpired,
                    effectIsExpired, cdInterval, onExpiredCalls, zeroComputations >>
    /\ UNCHANGED << server, localStorage, user, pageVars, inflight, toasts, gateVars,
                    tierView, sessionVars, pollVars >>

CountdownNext ==
    \/ \E e \in ExpiryInputs : CountdownMount(e)
    \/ CountdownTick
    \/ CountdownParentRender
    \/ CountdownUnmount
    \/ ClockAdvance

CountdownSpec == TierInit /\ [][CountdownNext]_vars

\* C17: within one mount of CountdownTimer, onExpired is invoked exactly once,
\* at the first computation whose remaining seconds are zero, and never again
\* on later ticks or effect reruns; mounted with an expiry already in the
\* past it is invoked once and no positive time is ever displayed.
C17_ExpiredFiresOnce ==
    cdMounted =>
        /\ onExpiredCalls = (IF zeroComputations > 0 THEN 1 ELSE 0)
        /\ expiresAt <= mountedAt => (timeRemaining = 0 /\ onExpiredCalls = 1)

C17_Witness ==
    /\ cdMounted
    /\ expiresAt > mountedAt
    /\ zeroComputations = MaxCalls
    /\ onExpiredCalls = 1
    /\ isExpired

(***************************************************************************)
(* Properties of the progress indicators and the share button (TierSpec)   *)
(***************************************************************************)
\* C18: the progress value of the visual progress indicator is within
\* 0-100% for every member count, however far the count exceeds the top tier
\* size or the capacity, in the lobby page ProgressBar and in the LobbyView
\* DiscountProgressBar alike.
C18_ProgressClamped ==
    tierView.view \in {"ProgressBar", "DiscountProgressBar"} =>
        /\ 0 <= tierView.progress.num
        /\ tierView.progress.num <= 100 * tierView.progress.den

\* C19: for every member count at or above the maximum tier size (8) the next
\* tier is absent: ProgressBar renders no next-tier hint, and ShareButton
\* computes membersNeeded = 0 and shows no "+N for X%" badge.
C19_NoNextTierAtTop ==
    tierView.count >= DISCOUNT_TIERS[Len(DISCOUNT_TIERS)].size =>
        /\ tierView.view = "ProgressBar" =>
              (tierView.nextTier = NoTier /\ ~tierView.hintShown)
        /\ tierView.view = "ShareButton" =>
              (tierView.membersNeeded = 0 /\ ~tierView.badgeShown)

C19_Witness ==
    /\ tierView.view = "ShareButton"
    /\ tierView.count = 10
    /\ tierView.nextTier.size = 8
    /\ tierView.membersNeeded = 0

(***************************************************************************)
(* Recovery from failed fetches (under Spec)                               *)
(***************************************************************************)
\* C20: a lobby fetch that fails on the network is never fatal: polling stays
\* enabled after the failure, the next poll tick issues the fetch again, and
\* the first later successful fetch clears the error state and shows the
\* screen the view-state gate selects for that snapshot.
C20_NetworkErrorRecovers ==
    /\ [](error = MSG_NO_SERVER =>
             /\ mounted /\ ~isLoading
             /\ BagCardinality(inflight) < MaxInflight => ENABLED PollTick)
    /\ [][\A r \in BagToSet(inflight) :
             (error = MSG_NO_SERVER /\ Processed(r) /\ r.kind = "ok") =>
                /\ error' = NULL
                /\ lobby' = r.data
                /\ ScreenKind' = SelectScreen(FALSE, NULL, r.data, user, hasJoined)
                /\ ScreenKind' # "error"]_vars

C20_Witness ==
    /\ server.exists
    /\ error = NULL
    /\ ScreenKind = "join"
    /\ joinReq # NULL
    /\ ~isJoining

(***************************************************************************)
(* Properties of page views (under SessionSpec)                            *)
(***************************************************************************)
\* C21: the previous-snapshot memory is reset when the page navigates to a
\* different lobby code: the first successfully processed snapshot of a page
\* view shows neither a "member joined" nor a "group locked" toast, whatever
\* the last snapshot of the previous code was.
C21_MemoryResetOnNewCode ==
    [][\A r \in BagToSet(inflight) :
          (Processed(r) /\ r.kind = "ok" /\ ~lobby.present) =>
             /\ prevMemberCountRef = 0 /\ prevStatusRef = ""
             /\ CountKind(toasts', "joined") = 0
             /\ CountKind(toasts', "locked") = 0]_vars

C21_Witness ==
    /\ route = "lobby"
    /\ Pointer(localStorage) = << OtherCode, "null" >>
    /\ lobby.present /\ lobby.status = "LOCKED" /\ lobby.member_count = 2
    /\ toasts = << >>

(***************************************************************************)
(* Further properties of the lobby page (under Spec)                       *)
(***************************************************************************)
\* C22: the loading screen is shown only until the first fetch settles: once
\* isLoading has become false it never becomes true again during the page
\* view, for any later poll tick, refetch, failure or success.
C22_LoadingOnlyOnce ==
    [][~isLoading => (~isLoading' /\ ScreenKind' # "loading")]_vars

C22_Witness ==
    /\ ~isLoading
    /\ hasJoined
    /\ lobby.present
    /\ error = MSG_NO_SERVER
    /\ BagCardinality(inflight) = MaxInflight

\* C23: the lobby page sets the active-lobby pointer to a lobby code only when
\* the current identity is among the snapshot's members or the user has
\* completed the join action, never merely because a non-member viewed an
\* OPEN lobby.
C23_PointerOnlyForMembers ==
    [][\A r \in BagToSet(inflight) :
          (/\ Processed(r) /\ r.kind = "ok"
           /\ localStorage.groupie_active_lobby # lobbyCode
           /\ localStorage'.groupie_active_lobby = lobbyCode) =>
             (isUserInLobby(user, r.data) \/ hasJoined)]_vars

(***************************************************************************)
(* The landing page with its Navbar and the other tabs of the browser      *)
(***************************************************************************)
NavbarNext ==
    \/ Navigate("landing")
    \/ \E outcome \in {"ok", "notok", "neterr"} : NavbarCheck(outcome)
    \/ \E v \in navInflight : NavbarValidated(v)
    \/ \E created \in BOOLEAN : NavbarStartGroup(created)
    \/ \E p \in TabPointers : OtherTabWrites(p)
    \/ \E d \in NameInputs : LoginSubmit(d)
    \/ Logout
    \/ ServerPurge

NavbarSpec == Init /\ [][NavbarNext]_vars

\* C24: the navbar shows "Min gruppe" for a stored code only when the
\* latest validation of that same code that has returned answered OK.
C24_MinGruppeOnlyValidated ==
    MinGruppeShown => navLastResult[navActiveLobbyCode] = "ok"

\* C27: a non-OK validation response for code X that arrives while the stored
\* pointer references a different code Y leaves the pointer for Y in storage.
C27_StaleValidationKeepsPointer ==
    [][\A v \in navInflight :
          (/\ NavbarValidated(v) /\ v.outcome = "notok"
           /\ localStorage.groupie_active_lobby \notin {NULL, v.code}) =>
             Pointer(localStorage') = Pointer(localStorage)]_vars

\* C28: when a join through the gate succeeds, the name sent in the join
\* request is the name of the local identity, so the snapshot the server then
\* serves lists the local user as a member.
C28_JoinNameIsIdentity ==
    [][JoinSucceeds => (joinReq = user' /\ isUserInLobby(user', Snapshot(server')))]_vars

\* C29: when the user has confirmed replacing the active group and the
\* creation of the new lobby fails, the pointer that was in storage before
\* the click is in storage again.
C29_FailedReplaceKeepsPointer ==
    [][(BusinessResponse(FALSE) /\ createReq.kind = "create" /\ createReq.replaced) =>
          Pointer(localStorage') = createReq.before]_vars

\* C26: after "leave group" has cleared the pointer, no response to a fetch
\* the left page had in flight sets the pointer again.
C26_LeaveStaysCleared ==
    [][\A r \in BagToSet(orphaned) :
          (OrphanDeliver(r) /\ Pointer(localStorage) = << NULL, NULL >>) =>
             Pointer(localStorage') = << NULL, NULL >>]_vars

\* C30: a fetch that ends in 404, another error status or a network failure
\* changes neither prevMemberCountRef nor prevStatusRef and shows no toast;
\* the first successful fetch after it compares with the last snapshot that
\* was received, so a join and an OPEN -> LOCKED transition that happened in
\* between are each notified exactly once.
C30_FailedFetchKeepsMemory ==
    [][\A r \in BagToSet(inflight) :
          Processed(r) =>
             IF r.kind # "ok"
             THEN /\ prevMemberCountRef' = prevMemberCountRef
                  /\ prevStatusRef' = prevStatusRef
                  /\ toasts' = << >>
             ELSE (error # NULL /\ lobby.present) =>
                  /\ CountKind(toasts', "joined") =
                        (IF r.data.member_count > lobby.member_count THEN 1 ELSE 0)
                  /\ CountKind(toasts', "locked") =
                        (IF lobby.status = "OPEN" /\ r.data.status = "LOCKED"
                         THEN 1 ELSE 0)]_vars

\* A fetch has failed after snapshot (OPEN, n members) was received, and the
\* response now arriving shows the lobby LOCKED with more members.
C30_Witness ==
    /\ error = MSG_NO_SERVER /\ lobby.present /\ lobby.status = "OPEN"
    /\ prevMemberCountRef = lobby.member_count /\ prevStatusRef = "OPEN"
    /\ \E r \in BagToSet(inflight) :
          /\ r.kind = "ok" /\ r.data.status = "LOCKED"
          /\ r.data.member_count > lobby.member_count

(***************************************************************************)
(* The requests behind the busy flags.  Every fetch settles: it resolves   *)
(* or rejects, and the handler awaiting it is resumed.                     *)
(***************************************************************************)
JoinResponse == route = "lobby" /\ (JoinSucceeds \/ JoinFails)

ReadyResponse ==
    /\ route = "lobby"
    /\ \/ \E allReady \in BOOLEAN : ReadySucceeds(allReady)
       \/ \E thrown \in BOOLEAN : ReadyFails(thrown)

CreateResponse == \E ok \in BOOLEAN : BusinessResponse(ok)

BusyNext ==
    \/ route = "lobby" /\ MountEffect
    \/ route = "lobby" /\ DeliverAny
    \/ route = "lobby" /\ \E d \in DisplayInputs : JoinStart(d)
    \/ route = "lobby" /\ ReadyStart
    \/ JoinResponse
    \/ ReadyResponse
    \/ ServerPurge
    \/ createReq = NoRequest /\ \E to \in {"lobby", "business"} : Navigate(to)
    \/ \E outcome \in {"ok", "notok", "neterr"}, b \in {NULL, "1", "2"},
          isLeader \in BOOLEAN : BusinessCheck(outcome, b, isLeader)
    \/ \E confirmReplace \in BOOLEAN : BusinessStartGroup(confirmReplace)
    \/ \E confirmSwitch \in BOOLEAN : BusinessAttach(confirmSwitch)
    \/ CreateResponse

BusySpec ==
    /\ Init /\ [][BusyNext]_vars
    /\ WF_vars(JoinResponse) /\ WF_vars(ReadyResponse) /\ WF_vars(CreateResponse)

\* C25: a busy flag that has been set (isToggling by the ready toggle,
\* isJoining by the join, isCreating by create group / attach business) is
\* eventually false again, whether the request succeeds, is rejected or fails.
C25_BusyFlagsClear ==
    /\ isToggling ~> ~isToggling
    /\ isJoining ~> ~isJoining
    /\ isCreating ~> ~isCreating

\* The user has joined through the gate and a ready toggle has failed: both
\* flags are false again.
C25_Witness ==
    /\ hasJoined /\ ~isJoining /\ ~isToggling /\ joinReq = NULL /\ ~readyReq
    /\ toasts = << Toast("readyFailed", NULL, 0) >>

====
